---- MODULE Spec2Model ----
(***************************************************************************)
(* A model of the virtualised list widget of widget/list.go: the List      *)
(* facade (selection, scrolling), the visible-range computation, the       *)
(* layout engine's reconciliation pass (updateList) and the item views.    *)
(* Lengths are whole pixels; floor and ceiling are the integer ones.       *)
(***************************************************************************)
EXTENDS Integers, Sequences, FiniteSets, TLC

\* ------------------------------------------------------------------ bounds
\* Largest value Length() returns.
MaxLen == 2
\* Largest height the list is resized to.
MaxViewH == 4
\* Largest height passed to SetItemHeight.
MaxHeight == 4
\* Deepest nesting of UpdateItem calls a callback that scrolls the list lets
\* build up before it stops scrolling.
MaxNest == 2

\* ------------------------------------------------- values from collaborators
\* theme.Padding(): the separator thickness between two rows.
Padding == 1
\* MinSize of the view CreateItem returns (the template row).
TemplateHeight == 2
TemplateWidth == 1

ItemIDs == 0..(MaxLen - 1)
\* The heights the list is resized to: none, one padded row, more than one row.
ViewHeights == {0, TemplateHeight + Padding, MaxViewH}
\* The height SetItemHeight is called with: above the template's.
OverrideHeights == {MaxHeight}

VARIABLES
    hasLength,        \* List.Length is set (not nil)
    hasCreateItem,    \* List.CreateItem is set
    hasUpdateItem,    \* List.UpdateItem is set
    updateScrolls,    \* the UpdateItem callback scrolls the list to the row before
    count,            \* what Length() returns
    rendered,         \* List.scroller # nil: CreateRenderer has run
    selected,         \* List.selected, a sequence of item ids
    itemMin,          \* List.itemMin, [Width, Height]
    itemHeights,      \* List.itemHeights, a function from some item ids to heights
    offsetY,          \* List.offsetY
    scrollerOffsetY,  \* List.scroller.Offset.Y
    scrollerHeight,   \* List.scroller.Size().Height (the list's own height)
    visible,          \* listLayout.visible, a function from item ids to views
    itemPool,         \* listLayout.itemPool, the set of idle views
    items,            \* the listItems created so far: items[v] = [selected, hovered,
                      \* onTapped, child], onTapped and child {} or {the row bound}
    separators,       \* len(listLayout.separators)
    objects,          \* the object list published to the scroller's content container
    focused,          \* canvas.Focused(): {} or {v}
    renderLock,       \* listLayout.renderLock is held
    panicked,         \* the process died of a run-time panic
    op,               \* the operation that has just run, [name, id]; "idle" between two
    log               \* the calls that operation made, in order

vars == <<hasLength, hasCreateItem, hasUpdateItem, updateScrolls, count, rendered, selected,
          itemMin, itemHeights, offsetY, scrollerOffsetY, scrollerHeight, visible,
          itemPool, items, separators, objects, focused, renderLock, panicked,
          op, log>>

\* The state as one record, for the operators that model the methods; nest is
\* the number of UpdateItem calls the running code is nested in.
State ==
    [hasLength |-> hasLength, hasCreateItem |-> hasCreateItem,
     hasUpdateItem |-> hasUpdateItem, updateScrolls |-> updateScrolls, nest |-> 0,
     count |-> count, rendered |-> rendered,
     selected |-> selected, itemMin |-> itemMin, itemHeights |-> itemHeights,
     offsetY |-> offsetY, scrollerOffsetY |-> scrollerOffsetY,
     scrollerHeight |-> scrollerHeight, visible |-> visible, itemPool |-> itemPool,
     items |-> items, separators |-> separators, objects |-> objects,
     focused |-> focused, renderLock |-> renderLock, panicked |-> panicked,
     log |-> <<>>]

Commit(r, name, id) ==
    /\ hasLength' = r.hasLength
    /\ hasCreateItem' = r.hasCreateItem
    /\ hasUpdateItem' = r.hasUpdateItem
    /\ updateScrolls' = r.updateScrolls
    /\ count' = r.count
    /\ rendered' = r.rendered
    /\ selected' = r.selected
    /\ itemMin' = r.itemMin
    /\ itemHeights' = r.itemHeights
    /\ offsetY' = r.offsetY
    /\ scrollerOffsetY' = r.scrollerOffsetY
    /\ scrollerHeight' = r.scrollerHeight
    /\ visible' = r.visible
    /\ itemPool' = r.itemPool
    /\ items' = r.items
    /\ separators' = r.separators
    /\ objects' = r.objects
    /\ focused' = r.focused
    /\ renderLock' = r.renderLock
    /\ panicked' = r.panicked
    /\ op' = [name |-> name, id |-> id]
    /\ log' = r.log

\* ----------------------------------------------------------------- helpers
EmptyMap == [x \in {} |-> 0]
Put(f, k, v) == [x \in (DOMAIN f) \cup {k} |-> IF x = k THEN v ELSE f[x]]
Range(f) == {f[x] : x \in DOMAIN f}
CeilDiv(a, b) == 0 - ((0 - a) \div b)

\* One entry of the log: a call of kind k, about item or view id, or about the
\* (row, view) pairs in rows, made while the locks in locks were held.
Ev(k, id, rows) == [k |-> k, id |-> id, rows |-> rows, locks |-> {}]
\* The locks of the list and its layout that are held in s.
Held(s) == IF s.renderLock THEN {"renderLock"} ELSE {}
LoggedUnder(s, e, locks) == [s EXCEPT !.log = Append(@, [e EXCEPT !.locks = locks])]
Logged(s, e) == LoggedUnder(s, e, Held(s))
Pairs(f) == {<<x, f[x]>> : x \in DOMAIN f}

ZeroSize == [Width |-> 0, Height |-> 0]
TemplateSize == [Width |-> TemplateWidth, Height |-> TemplateHeight]

\* Length(), or 0 when the callback is unset (list.go:166-169, 593-596).
length(s) == IF s.hasLength THEN s.count ELSE 0
\* The call of Length() that reads it, made when the callback is set.
callLength(s) == IF s.hasLength THEN Logged(s, Ev("Length", 0, {})) ELSE s

\* A row's height: its override when SetItemHeight set one, else itemHeight.
rowHeight(heights, itemHeight, i) ==
    IF i \in DOMAIN heights THEN heights[i] ELSE itemHeight

\* ----------------------------------------------------- visibleItemHeights
\* The uniform-height path, list.go:268-292.
uniformVisible(off, viewH, itemHeight, len) ==
    LET paddedItemHeight == itemHeight + Padding
        offY0 == (off \div paddedItemHeight) * paddedItemHeight
        minRow0 == offY0 \div paddedItemHeight
        maxRow0 == CeilDiv(offY0 + viewH, paddedItemHeight)
        minRow1 == IF minRow0 > len - 1 THEN len - 1 ELSE minRow0
        minRow == IF minRow1 < 0 THEN 0 ELSE minRow1
        offY == IF minRow1 < 0 THEN 0 ELSE offY0
        maxRow == IF maxRow0 > len THEN len ELSE maxRow0
    IN [visible |-> [i \in 1..(maxRow - minRow) |-> itemHeight],
        offY |-> offY, minRow |-> minRow]

\* The sparse-height path, the loop of list.go:294-315; acc is
\* [visible, offY, minRow, isVisible].
RECURSIVE sparseVisible(_, _, _, _, _, _, _, _)
sparseVisible(off, viewH, heights, itemHeight, len, i, rowOffset, acc) ==
    IF i >= len THEN acc
    ELSE LET height == rowHeight(heights, itemHeight, i)
             starts == /\ ~(rowOffset <= off - height - Padding)
                       /\ rowOffset <= off
             acc1 == IF starts
                     THEN [acc EXCEPT !.minRow = i, !.offY = rowOffset,
                                      !.isVisible = TRUE]
                     ELSE acc
         IN IF rowOffset >= off + viewH THEN acc1
            ELSE sparseVisible(off, viewH, heights, itemHeight, len, i + 1,
                     rowOffset + height + Padding,
                     IF acc1.isVisible
                     THEN [acc1 EXCEPT !.visible = Append(@, height)]
                     ELSE acc1)

\* List.visibleItemHeights, list.go:256-317.
visibleItemHeights(off, viewH, heights, itemHeight, len) ==
    LET none == [visible |-> <<>>, offY |-> 0, minRow |-> 0, isVisible |-> FALSE]
    IN IF viewH <= 0 THEN none
       ELSE IF DOMAIN heights = {}
            THEN uniformVisible(off, viewH, itemHeight, len)
            ELSE sparseVisible(off, viewH, heights, itemHeight, len, 0, 0, none)

\* -------------------------------------------------------------- item views
\* newListItem(child, nil), list.go:369-377: a view with no tap handler yet.
newListItem == [selected |-> FALSE, hovered |-> FALSE, onTapped |-> {}, child |-> {}]

\* canvas.Focus(nil): the focused view, if any, gets FocusLost (list.go:402-405).
unfocus(s) ==
    [s EXCEPT !.focused = {},
              !.items = [v \in DOMAIN @ |->
                            IF v \in s.focused THEN [@[v] EXCEPT !.hovered = FALSE]
                            ELSE @[v]]]

\* ------------------------------------------------------------- itemPool
\* syncPool.Obtain: any idle view, taken out of the pool; none when it is empty.
Obtain(pool) == {[item |-> v, pool |-> pool \ {v}] : v \in pool}
\* syncPool.Release: the view is idle again.
Release(pool, v) == pool \cup {v}

\* listLayout.getItem, list.go:547-555: the possible outcomes [s, item]; item 0
\* is the run-time panic of item.(*listItem) on a nil interface value.
getItem(s) ==
    IF s.itemPool # {}
    THEN {[s |-> Logged([s EXCEPT !.itemPool = o.pool], Ev("Obtain", o.item, {})),
           item |-> o.item] : o \in Obtain(s.itemPool)}
    ELSE IF s.hasCreateItem
         THEN LET v == Len(s.items) + 1
              IN {[s |-> Logged([s EXCEPT !.items = Append(@, newListItem)],
                                Ev("CreateItem", v, {})),
                   item |-> v]}
         ELSE {[s |-> [Logged(s, Ev("panic", 0, {})) EXCEPT !.panicked = TRUE],
                item |-> 0]}

\* The entry of the log that collects the UpdateItem calls of the pass running
\* at the nesting depth of s: the last one opened at that depth.
batch(s) ==
    CHOOSE i \in 1..Len(s.log) :
        /\ s.log[i].k = "UpdateItem" /\ s.log[i].id = s.nest
        /\ \A j \in (i + 1)..Len(s.log) :
              ~(s.log[j].k = "UpdateItem" /\ s.log[j].id = s.nest)

RECURSIVE ScrollTo(_, _)
\* The caller's UpdateItem(id, li.child): it fills the child with row id's data.
\* A callback that scrolls calls List.ScrollTo(id - 1) unless it is already
\* nested MaxNest deep.
UpdateItem(s, id, li) ==
    LET s1 == [s EXCEPT !.log[batch(s)].rows = @ \cup {<<id, li>>},
                        !.items[li].child = {id}]
    IN IF s.updateScrolls /\ s.nest < MaxNest
       THEN {[r EXCEPT !.nest = s.nest]
             : r \in ScrollTo([s1 EXCEPT !.nest = @ + 1], id - 1)}
       ELSE {s1}

\* setupListItem with a plausible slip: a view whose tap handler is already bound
\* to the row is taken to be up to date and UpdateItem is not called for it.
setupListItemSkipsBound(s, li, id, focus) ==
    LET sel == \E k \in 1..Len(s.selected) : s.selected[k] = id
        s1 == [s EXCEPT !.items[li].selected = sel, !.items[li].hovered = focus]
    IN IF s.hasUpdateItem /\ s.items[li].onTapped # {id}
       THEN {[r EXCEPT !.items[li].onTapped = {id}] : r \in UpdateItem(s1, id, li)}
       ELSE {[s1 EXCEPT !.items[li].onTapped = {id}]}

\* listLayout.setupListItem, list.go:565-587: the flags, then the call of
\* UpdateItem, then the tap handler, bound to id.
setupListItem(s, li, id, focus) ==
    LET previousIndicator == s.items[li].selected
        sel == \E k \in 1..Len(s.selected) : s.selected[k] = id
        hov == IF focus THEN TRUE
               ELSE IF previousIndicator # sel \/ s.items[li].hovered THEN FALSE
               ELSE s.items[li].hovered
        s1 == [s EXCEPT !.items[li].selected = sel, !.items[li].hovered = hov]
    IN IF s.hasUpdateItem
       THEN {[r EXCEPT !.items[li].onTapped = {id}] : r \in UpdateItem(s1, id, li)}
       ELSE {[s1 EXCEPT !.items[li].onTapped = {id}]}

\* listLayout.updateSeparators, list.go:665-676: the number of separators kept.
updateSeparators(nSeparators, nChildren) ==
    IF nChildren > 1
    THEN IF nSeparators > nChildren THEN nChildren
         ELSE IF nSeparators < nChildren THEN nChildren ELSE nSeparators
    ELSE 0

\* ------------------------------------------------------------ updateList
\* mountRows with a plausible slip: the views of the previous pass are never
\* reused, every row gets its view from getItem.
RECURSIVE mountRowsNoReuse(_, _, _, _, _)
mountRowsNoReuse(acc, wasVisible, n, minRow, index) ==
    IF index > n \/ acc.s.panicked THEN {acc}
    ELSE UNION {
           IF g.item = 0 THEN {[acc EXCEPT !.s = g.s]}
           ELSE mountRowsNoReuse([s |-> g.s,
                                  visible |-> Put(acc.visible, (index - 1) + minRow,
                                                  g.item),
                                  cells |-> Append(acc.cells, g.item)],
                                 wasVisible, n, minRow, index + 1)
           : g \in getItem(acc.s)}

\* The loop of list.go:615-634 from the index-th visible row on; acc is
\* [s, visible, cells]. A panic in getItem ends it.
RECURSIVE mountRows(_, _, _, _, _)
mountRows(acc, wasVisible, n, minRow, index) ==
    IF index > n \/ acc.s.panicked THEN {acc}
    ELSE LET row == (index - 1) + minRow
         IN IF row \in DOMAIN wasVisible
            THEN mountRows([acc EXCEPT !.visible = Put(@, row, wasVisible[row]),
                                       !.cells = Append(@, wasVisible[row])],
                           wasVisible, n, minRow, index + 1)
            ELSE UNION {
                   IF g.item = 0 THEN {[acc EXCEPT !.s = g.s]}
                   ELSE mountRows([s |-> g.s,
                                   visible |-> Put(acc.visible, row, g.item),
                                   cells |-> Append(acc.cells, g.item)],
                                  wasVisible, n, minRow, index + 1)
                   : g \in getItem(acc.s)}

\* releaseRows with a plausible slip: a view goes back to the pool with the
\* focus it has.
RECURSIVE releaseRowsKeepsFocus(_, _, _)
releaseRowsKeepsFocus(s, wasVisible, ids) ==
    IF ids = {} THEN s
    ELSE LET id == CHOOSE x \in ids : TRUE
             old == wasVisible[id]
         IN releaseRowsKeepsFocus([s EXCEPT !.itemPool = Release(@, old)],
                                  wasVisible, ids \ {id})

\* The loop of list.go:643-650: every view whose row left the visible set loses
\* the focus if it has it (canvas.Focus(nil)) and goes back to the pool.
RECURSIVE releaseRows(_, _, _)
releaseRows(s, wasVisible, ids) ==
    IF ids = {} THEN s
    ELSE LET id == CHOOSE x \in ids : TRUE
             old == wasVisible[id]
             s1 == IF old \in s.focused
                   THEN Logged(unfocus(s), Ev("Focus(nil)", old, {}))
                   ELSE s
         IN releaseRows([s1 EXCEPT !.itemPool = Release(@, old)],
                        wasVisible, ids \ {id})

\* The loop of list.go:660-662 over the map of the rows mounted. The order of
\* the rows is any; it makes a difference only when UpdateItem comes back into
\* the list.
RECURSIVE setupRows(_, _, _, _)
setupRows(s, vis, ids, wasFocused) ==
    IF ids = {} THEN {s}
    ELSE UNION {UNION {setupRows(r, vis, ids \ {row}, wasFocused)
                       : r \in setupListItem(s, vis[row], row, vis[row] \in wasFocused)}
                : row \in IF s.updateScrolls THEN ids ELSE {CHOOSE x \in ids : TRUE}}

\* finishList with a plausible slip: every view of the previous pass is released,
\* also those still mounted.
finishListReleasesAll(acc, wasVisible) ==
    LET s1 == [acc.s EXCEPT !.visible = acc.visible]
        wasFocused == s1.focused
        gone == DOMAIN wasVisible
        s2 == [s1 EXCEPT !.itemPool = @ \cup Range(wasVisible)]
        s3 == IF gone = {} THEN s2
              ELSE Logged(s2, Ev("Release", 0, {<<id, wasVisible[id]>> : id \in gone}))
        s4 == [s3 EXCEPT !.separators = updateSeparators(@, Len(acc.cells)),
                         !.objects = acc.cells,
                         !.renderLock = FALSE]
        s5 == Logged(Logged(s4, Ev("updateList", 0, Pairs(acc.visible))),
                     Ev("UpdateItem", s4.nest, {}))
    IN setupRows(s5, acc.visible, DOMAIN acc.visible, wasFocused)

\* finishList with a plausible slip: the views whose row left the visible set
\* are dropped, not released to the pool.
finishListNeverReleases(acc, wasVisible) ==
    LET s1 == [acc.s EXCEPT !.visible = acc.visible]
        wasFocused == s1.focused
        s4 == [s1 EXCEPT !.separators = updateSeparators(@, Len(acc.cells)),
                         !.objects = acc.cells,
                         !.renderLock = FALSE]
        s5 == Logged(Logged(s4, Ev("updateList", 0, Pairs(acc.visible))),
                     Ev("UpdateItem", s4.nest, {}))
    IN setupRows(s5, acc.visible, DOMAIN acc.visible, wasFocused)

\* list.go:636-662: the pass after its rows are mounted.
finishList(acc, wasVisible) ==
    LET s1 == [acc.s EXCEPT !.visible = acc.visible]
        wasFocused == s1.focused
        gone == DOMAIN wasVisible \ DOMAIN acc.visible
        s2 == releaseRows(s1, wasVisible, gone)
        s3 == IF gone = {} THEN s2
              ELSE Logged(s2, Ev("Release", 0, {<<id, wasVisible[id]>> : id \in gone}))
        s4 == [s3 EXCEPT !.separators = updateSeparators(@, Len(acc.cells)),
                         !.objects = acc.cells,
                         !.renderLock = FALSE]
        s5 == Logged(Logged(s4, Ev("updateList", 0, Pairs(acc.visible))),
                     Ev("UpdateItem", s4.nest, {}))
    IN setupRows(s5, acc.visible, DOMAIN acc.visible, wasFocused)

\* updateList with a plausible slip: a pass that finds no visible row unmounts
\* what the previous pass mounted before it returns.
updateListAbortUnmounts(s) ==
    IF s.panicked THEN {s}
    ELSE LET locked == callLength([s EXCEPT !.renderLock = TRUE])
             len == length(s)
             wasVisible == s.visible
             r == visibleItemHeights(s.offsetY, s.scrollerHeight, s.itemHeights,
                                     s.itemMin.Height, len)
         IN IF Len(r.visible) = 0 /\ len > 0
            THEN {Logged([locked EXCEPT !.renderLock = FALSE,
                                        !.visible = EmptyMap,
                                        !.itemPool = @ \cup Range(wasVisible)],
                         Ev("abort", 0, {}))}
            ELSE UNION {IF acc.s.panicked THEN {acc.s} ELSE finishList(acc, wasVisible)
                        : acc \in mountRows([s |-> locked, visible |-> EmptyMap,
                                             cells |-> <<>>],
                                            wasVisible, Len(r.visible), r.minRow, 1)}

\* listLayout.updateList, list.go:589-663: the states one pass can end in.
updateList(s) ==
    IF s.panicked THEN {s}
    ELSE LET locked == callLength([s EXCEPT !.renderLock = TRUE])
             len == length(s)
             wasVisible == s.visible
             r == visibleItemHeights(s.offsetY, s.scrollerHeight, s.itemHeights,
                                     s.itemMin.Height, len)
         IN IF Len(r.visible) = 0 /\ len > 0
            THEN {Logged([locked EXCEPT !.renderLock = FALSE], Ev("abort", 0, {}))}
            ELSE UNION {IF acc.s.panicked THEN {acc.s} ELSE finishList(acc, wasVisible)
                        : acc \in mountRows([s |-> locked, visible |-> EmptyMap,
                                             cells |-> <<>>],
                                            wasVisible, Len(r.visible), r.minRow, 1)}

\* listLayout.offsetUpdated, list.go:557-563.
offsetUpdated(s, posY) ==
    IF s.panicked \/ s.offsetY = posY THEN {s}
    ELSE updateList([s EXCEPT !.offsetY = posY])

\* ------------------------------------------------------------ the layout
\* listLayout.MinSize, list.go:517-545.
RECURSIVE sumHeights(_, _, _)
sumHeights(heights, templateHeight, n) ==
    IF n <= 0 THEN 0
    ELSE sumHeights(heights, templateHeight, n - 1)
         + rowHeight(heights, templateHeight, n - 1)

\* The call MinSize makes: Length(), with propertyLock held (list.go:518-524).
minSizeCalls(s) ==
    IF s.hasLength
    THEN LoggedUnder(s, Ev("Length", 0, {}), Held(s) \cup {"propertyLock"})
    ELSE s

MinSize(s) ==
    IF ~s.hasLength THEN ZeroSize
    ELSE LET n == s.count
         IN IF DOMAIN s.itemHeights = {}
            THEN [Width |-> s.itemMin.Width,
                  Height |-> (s.itemMin.Height + Padding) * n - Padding]
            ELSE [Width |-> s.itemMin.Width,
                  Height |-> sumHeights(s.itemHeights, s.itemMin.Height, n)
                             + Padding * (n - 1)]

\* listLayout.Layout, list.go:513-515.
Layout(s) == updateList(s)

\* List.CreateRenderer, list.go:75-90. The new content container has size zero;
\* its Resize lays it out unless the size it is given is the one it has.
CreateRenderer(s) ==
    LET s1 == IF s.hasCreateItem /\ s.itemMin = ZeroSize
              THEN Logged([s EXCEPT !.itemMin = TemplateSize], Ev("CreateItem", 0, {}))
              ELSE s
        s2 == [s1 EXCEPT !.rendered = TRUE, !.scrollerOffsetY = 0,
                         !.scrollerHeight = 0, !.visible = EmptyMap,
                         !.itemPool = {}, !.separators = 0, !.objects = <<>>]
        s3 == minSizeCalls(s2)
    IN IF s.panicked THEN {s}
       ELSE IF MinSize(s2) = ZeroSize THEN {s3} ELSE Layout(s3)

\* The widget's renderer, created by CreateRenderer the first time it is asked for.
Renderer(s) == IF s.rendered THEN {s} ELSE CreateRenderer(s)

\* listRenderer.Refresh, list.go:344-352.
listRendererRefresh(s) ==
    IF s.panicked THEN {s}
    ELSE updateList(IF s.hasCreateItem
                    THEN Logged([s EXCEPT !.itemMin = TemplateSize],
                                Ev("CreateItem", 0, {}))
                    ELSE s)

\* BaseWidget.Refresh: the refresh of the widget's renderer.
Refresh(s) == UNION {listRendererRefresh(r) : r \in Renderer(s)}

\* ---------------------------------------------------------------- the List
\* The top of row id as scrollTo computes it, list.go:126-140.
rowTop(s, id) ==
    IF DOMAIN s.itemHeights = {}
    THEN id * s.itemMin.Height + id * Padding
    ELSE sumHeights(s.itemHeights, s.itemMin.Height, id) + id * Padding

\* The offset scrollTo leaves in the scroller, list.go:142-146.
scrollOffsetFor(s, id) ==
    LET y == rowTop(s, id)
    IN IF y < s.scrollerOffsetY THEN y
       ELSE IF y + s.itemMin.Height > s.scrollerOffsetY + s.scrollerHeight
            THEN y + s.itemMin.Height - s.scrollerHeight
            ELSE s.scrollerOffsetY

\* List.scrollTo, list.go:120-148.
scrollTo(s, id) ==
    IF s.panicked \/ ~s.rendered THEN {s}
    ELSE LET off == scrollOffsetFor(s, id)
         IN offsetUpdated([s EXCEPT !.scrollerOffsetY = off], off)

\* List.SetItemHeight, list.go:104-118. A missing key reads as height 0.
SetItemHeight(s, id, height) ==
    LET refresh == rowHeight(s.itemHeights, 0, id) # height
        s1 == [s EXCEPT !.itemHeights = Put(@, id, height)]
    IN IF s.panicked THEN {s}
       ELSE IF refresh THEN Refresh(s1) ELSE {s1}

\* List.Resize, list.go:151-159. BaseWidget.Resize lays the renderer out, which
\* resizes the scroller (listRenderer.Layout, list.go:336-338).
Resize(s, height) ==
    IF s.panicked THEN {s}
    ELSE UNION {UNION {updateList(t) : t \in offsetUpdated(r1, r1.scrollerOffsetY)}
                : r1 \in {[r EXCEPT !.scrollerHeight = height] : r \in Renderer(s)}}

\* selectDeferred with a plausible slip: the two callbacks in the other order.
selectDeferredSwapped(s, old, id) ==
    LET s1 == Logged(s, Ev("OnSelected", id, {}))
    IN IF Len(old) > 0 THEN Logged(s1, Ev("OnUnselected", old[1], {})) ELSE s1

\* The functions Select defers, list.go:175-182: they run also when the rest of
\* Select panics.
selectDeferred(s, old, id) ==
    LET s1 == IF Len(old) > 0 THEN Logged(s, Ev("OnUnselected", old[1], {})) ELSE s
    IN Logged(s1, Ev("OnSelected", id, {}))

\* newSelection with a plausible slip: the id is added to the selection.
newSelectionAdds(old, id) == Append(old, id)

\* The selection Select sets, list.go:174.
newSelection(old, id) == <<id>>

\* Select with a plausible slip: no check of id against Length().
SelectUnchecked(s, id) ==
    IF s.panicked THEN {s}
    ELSE IF Len(s.selected) > 0 /\ id = s.selected[1] THEN {s}
    ELSE LET old == s.selected
             s1 == [callLength(s) EXCEPT !.selected = newSelection(old, id)]
         IN {selectDeferred(r, old, id)
             : r \in UNION {Refresh(t) : t \in scrollTo(s1, id)}}

\* List.Select, list.go:162-185.
Select(s, id) ==
    IF s.panicked THEN {s}
    ELSE IF Len(s.selected) > 0 /\ id = s.selected[1] THEN {s}
    ELSE IF id < 0 \/ id >= length(s) THEN {callLength(s)}
    ELSE LET old == s.selected
             s1 == [callLength(s) EXCEPT !.selected = newSelection(old, id)]
         IN {selectDeferred(r, old, id)
             : r \in UNION {Refresh(t) : t \in scrollTo(s1, id)}}

\* List.ScrollTo, list.go:190-200.
ScrollTo(s, id) ==
    IF s.panicked THEN {s}
    ELSE IF id < 0 \/ id >= length(s) THEN {callLength(s)}
    ELSE UNION {Refresh(t) : t \in scrollTo(callLength(s), id)}

\* List.ScrollToBottom, list.go:205-215.
ScrollToBottom(s) ==
    LET len == length(s)
        last == IF len > 0 THEN len - 1 ELSE len
    IN IF s.panicked THEN {s}
       ELSE UNION {Refresh(t) : t \in scrollTo(callLength(s), last)}

\* List.ScrollToTop, list.go:220-223.
ScrollToTop(s) ==
    IF s.panicked THEN {s}
    ELSE UNION {Refresh(t) : t \in scrollTo(s, 0)}

\* Unselect with a plausible slip: no check that id is the selected index.
UnselectUnguarded(s, id) ==
    IF s.panicked THEN {s}
    ELSE {IF r.panicked THEN r ELSE Logged(r, Ev("OnUnselected", id, {}))
          : r \in Refresh([s EXCEPT !.selected = <<>>])}

\* List.Unselect, list.go:226-236.
Unselect(s, id) ==
    IF s.panicked \/ Len(s.selected) = 0 \/ s.selected[1] # id THEN {s}
    ELSE {IF r.panicked THEN r ELSE Logged(r, Ev("OnUnselected", id, {}))
          : r \in Refresh([s EXCEPT !.selected = <<>>])}

\* The loop of list.go:250-252.
RECURSIVE unselectedAll(_, _, _)
unselectedAll(s, ids, k) ==
    IF k > Len(ids) THEN s
    ELSE unselectedAll(Logged(s, Ev("OnUnselected", ids[k], {})), ids, k + 1)

\* List.UnselectAll, list.go:241-254.
UnselectAll(s) ==
    IF s.panicked \/ Len(s.selected) = 0 THEN {s}
    ELSE {IF r.panicked THEN r ELSE unselectedAll(r, s.selected, 1)
          : r \in Refresh([s EXCEPT !.selected = <<>>])}

\* The closure setupListItem binds to a view, list.go:584-586.
onTapped(s, li) == UNION {Select(s, id) : id \in s.items[li].onTapped}

\* listItem.Tapped, list.go:430-436.
Tapped(s, li) ==
    IF s.panicked \/ s.items[li].onTapped = {} THEN {s}
    ELSE onTapped([s EXCEPT !.items[li].selected = TRUE], li)

\* listItem.TypedKey with the space key, list.go:441-450.
TypedKey(s, li) ==
    LET s1 == [s EXCEPT !.items[li].selected = TRUE]
    IN IF s.panicked THEN {s}
       ELSE IF s.items[li].onTapped # {} THEN onTapped(s1, li) ELSE {s1}

\* canvas.Focus(li): FocusLost for the view that had the focus, FocusGained for
\* li (list.go:394-405).
Focus(s, li) ==
    LET s1 == unfocus(s)
    IN [s1 EXCEPT !.focused = {li}, !.items[li].hovered = TRUE]

\* The scroller moved to posY by the user: it calls OnScrolled, which is
\* offsetUpdated (list.go:332).
Scrolled(s, posY) == offsetUpdated([s EXCEPT !.scrollerOffsetY = posY], posY)

\* The largest offset the scroller lets the user reach: its content's minimum
\* height less its own.
maxScroll(s) ==
    LET h == MinSize(s).Height - s.scrollerHeight
    IN IF h > 0 THEN h ELSE 0

\* ------------------------------------------------------------ the machine
\* Between two operations: the event loop waits for the next call or event.
Idle == [name |-> "idle", id |-> 0]
\* An operation starts from the event loop of a process that is alive.
Ready == op = Idle /\ ~panicked
\* The list as NewList leaves it (list.go:48-52), over data of any length.
InitList ==
    /\ updateScrolls = FALSE
    /\ count \in 0..MaxLen
    /\ rendered = FALSE
    /\ selected = <<>>
    /\ itemMin = ZeroSize
    /\ itemHeights = EmptyMap
    /\ offsetY = 0
    /\ scrollerOffsetY = 0
    /\ scrollerHeight = 0
    /\ visible = EmptyMap
    /\ itemPool = {}
    /\ items = <<>>
    /\ separators = 0
    /\ objects = <<>>
    /\ focused = {}
    /\ renderLock = FALSE
    /\ panicked = FALSE
    /\ op = Idle
    /\ log = <<>>

\* NewList with its three callbacks.
Init ==
    /\ hasLength = TRUE
    /\ hasCreateItem = TRUE
    /\ hasUpdateItem = TRUE
    /\ InitList

DoCreateRenderer ==
    /\ Ready /\ ~rendered
    /\ \E r \in CreateRenderer(State) : Commit(r, "CreateRenderer", 0)

CallSetItemHeight ==
    /\ Ready
    /\ \E id \in ItemIDs, h \in OverrideHeights :
          \E r \in SetItemHeight(State, id, h) : Commit(r, "SetItemHeight", id)

CallSelect ==
    /\ Ready
    /\ \E id \in (0 - 1)..MaxLen :
          \E r \in Select(State, id) : Commit(r, "Select", id)

CallScrollTo ==
    /\ Ready
    /\ \E id \in (0 - 1)..MaxLen :
          \E r \in ScrollTo(State, id) : Commit(r, "ScrollTo", id)

CallScrollToBottom ==
    /\ Ready
    /\ \E r \in ScrollToBottom(State) : Commit(r, "ScrollToBottom", 0)

CallScrollToTop ==
    /\ Ready
    /\ \E r \in ScrollToTop(State) : Commit(r, "ScrollToTop", 0)

CallUnselect ==
    /\ Ready
    /\ \E id \in ItemIDs :
          \E r \in Unselect(State, id) : Commit(r, "Unselect", id)

CallUnselectAll ==
    /\ Ready
    /\ \E r \in UnselectAll(State) : Commit(r, "UnselectAll", 0)

CallResize ==
    /\ Ready
    /\ \E h \in ViewHeights :
          \E r \in Resize(State, h) : Commit(r, "Resize", h)

CallRefresh ==
    /\ Ready
    /\ \E r \in Refresh(State) : Commit(r, "Refresh", 0)

\* The content container lays itself out again.
CallLayout ==
    /\ Ready /\ rendered
    /\ \E r \in Layout(State) : Commit(r, "Layout", 0)

UserScrolled ==
    /\ Ready /\ rendered
    /\ \E posY \in 0..maxScroll(State) :
          /\ posY # scrollerOffsetY
          /\ \E r \in Scrolled(State, posY) : Commit(r, "Scrolled", posY)

\* A tap on a row on screen.
UserTapped ==
    /\ Ready
    /\ \E li \in Range(visible) :
          \E r \in Tapped(State, li) : Commit(r, "Tapped", li)

\* The space key typed into the row that has the focus.
UserTypedKey ==
    /\ Ready
    /\ \E li \in focused :
          \E r \in TypedKey(State, li) : Commit(r, "TypedKey", li)

\* The focus moves to a row on screen, or away from the list.
UserFocus ==
    /\ Ready
    /\ \E li \in Range(visible) \ focused : Commit(Focus(State, li), "Focus", li)

UserUnfocus ==
    /\ Ready /\ focused # {}
    /\ Commit(unfocus(State), "Unfocus", 0)

\* The data behind Length() grows or shrinks.
DataChanged ==
    /\ Ready /\ hasLength
    /\ \E n \in (0..MaxLen) \ {count} :
          Commit([State EXCEPT !.count = n], "DataChanged", n)

\* The operation returns to the event loop; its record is dropped.
Return ==
    /\ op # Idle
    /\ op' = Idle
    /\ log' = <<>>
    /\ UNCHANGED <<hasLength, hasCreateItem, hasUpdateItem, updateScrolls, count, rendered,
                   selected, itemMin, itemHeights, offsetY, scrollerOffsetY,
                   scrollerHeight, visible, itemPool, items, separators, objects,
                   focused, renderLock, panicked>>

Next ==
    \/ Return
    \/ DoCreateRenderer
    \/ CallSetItemHeight
    \/ CallSelect
    \/ CallScrollTo
    \/ CallScrollToBottom
    \/ CallScrollToTop
    \/ CallUnselect
    \/ CallUnselectAll
    \/ CallResize
    \/ CallRefresh
    \/ CallLayout
    \/ UserScrolled
    \/ UserTapped
    \/ UserTypedKey
    \/ UserFocus
    \/ UserUnfocus
    \/ DataChanged

Spec == Init /\ [][Next]_vars

\* NewList with one of its three callbacks nil.
InitMissing ==
    /\ \E missing \in {"Length", "CreateItem", "UpdateItem"} :
          /\ hasLength = (missing # "Length")
          /\ hasCreateItem = (missing # "CreateItem")
          /\ hasUpdateItem = (missing # "UpdateItem")
    /\ InitList

SpecMissing == InitMissing /\ [][Next]_vars

\* NewList with an UpdateItem that scrolls the list, over data two rows longer
\* than MaxLen.
InitReentrant ==
    /\ hasLength = TRUE
    /\ hasCreateItem = TRUE
    /\ hasUpdateItem = TRUE
    /\ updateScrolls = TRUE
    /\ count = MaxLen + 2
    /\ rendered = FALSE
    /\ selected = <<>>
    /\ itemMin = ZeroSize
    /\ itemHeights = EmptyMap
    /\ offsetY = 0
    /\ scrollerOffsetY = 0
    /\ scrollerHeight = 0
    /\ visible = EmptyMap
    /\ itemPool = {}
    /\ items = <<>>
    /\ separators = 0
    /\ objects = <<>>
    /\ focused = {}
    /\ renderLock = FALSE
    /\ panicked = FALSE
    /\ op = Idle
    /\ log = <<>>

\* The operations that render: the size, the scroll position, a refresh. The
\* list is given the height of one padded row at most, so that a pass mounts
\* one row.
NextReentrant ==
    \/ Return
    \/ DoCreateRenderer
    \/ CallResize /\ scrollerHeight' <= TemplateHeight + Padding
    \/ CallRefresh
    \/ CallScrollTo
    \/ CallScrollToBottom
    \/ CallScrollToTop
    \/ UserScrolled

SpecReentrant == InitReentrant /\ [][NextReentrant]_vars

\* ------------------------------------------------------------- the claims
\* The entries of the log of the given kinds, in order.
Calls(kinds) == SelectSeq(log, LAMBDA e : e.k \in kinds)
\* The reconciliation passes of the last operation: completed or aborted.
Passes == Calls({"updateList", "abort"})
SelectionCallbacks == {"OnSelected", "OnUnselected"}
InRange(id) == id >= 0 /\ id < length(State)

\* C1: in every reachable state the selection holds at most one index.
C1_AtMostOneSelected == Len(selected) <= 1

\* C1 witness: a Select that replaced an earlier selection has run.
C1_Witness ==
    /\ op.name = "Select"
    /\ Len(selected) = 1
    /\ Calls({"OnUnselected"}) # <<>>

\* C2: Select(b) with a # b selected and b in range logs its re-render first,
\* then exactly one OnUnselected(a), then exactly one OnSelected(b), and no
\* other selection callback.
C2_SelectCallbackOrder ==
    [][(/\ op'.name = "Select"
        /\ Len(selected) = 1
        /\ op'.id # selected[1]
        /\ InRange(op'.id))
       => LET n == Len(log')
          IN /\ n >= 3
             /\ log'[n] = Ev("OnSelected", op'.id, {})
             /\ log'[n - 1] = Ev("OnUnselected", selected[1], {})
             /\ \A i \in 1..(n - 2) : log'[i].k \notin SelectionCallbacks
             /\ \E i \in 1..(n - 2) : log'[i].k \in {"updateList", "abort"}]_vars

\* C2 witness: a Select that replaced a selection has re-rendered rows and then
\* fired both callbacks.
C2_Witness ==
    /\ op.name = "Select"
    /\ Calls({"OnUnselected"}) # <<>>
    /\ \E i \in 1..Len(log) : log[i].k = "UpdateItem" /\ log[i].rows # {}

\* C3: Select(id) with id outside [0, length()) changes neither the selection,
\* the offsets, the visible set, the pool nor the views, runs no pass and fires
\* no callback: the one call it makes is the Length() that tells it so.
C3_SelectOutOfRange ==
    [][(op'.name = "Select" /\ ~InRange(op'.id))
       => /\ UNCHANGED <<selected, offsetY, scrollerOffsetY, scrollerHeight,
                         visible, itemPool, items, objects, separators>>
          /\ \A i \in 1..Len(log') : log'[i].k = "Length"]_vars

\* C3 witness: Select was called out of range on a list with a selection and
\* mounted rows.
C3_Witness ==
    /\ op.name = "Select"
    /\ ~InRange(op.id)
    /\ Len(selected) = 1
    /\ DOMAIN visible # {}

\* C4: Unselect(id) of an index that is not selected, and UnselectAll with
\* nothing selected, change nothing, run no pass and fire no callback.
C4_UnselectNoOp ==
    [][(\/ op'.name = "Unselect" /\ (Len(selected) = 0 \/ selected[1] # op'.id)
        \/ op'.name = "UnselectAll" /\ Len(selected) = 0)
       => /\ UNCHANGED <<selected, offsetY, scrollerOffsetY, scrollerHeight,
                         visible, itemPool, items, objects, separators>>
          /\ log' = <<>>]_vars

\* C4 witness: Unselect was called for an index other than the selected one,
\* with rows mounted.
C4_Witness ==
    /\ op.name = "Unselect"
    /\ Len(selected) = 1
    /\ selected[1] # op.id
    /\ DOMAIN visible # {}

\* The top of row i: the heights and separators of the rows before it.
TopOf(i) == sumHeights(itemHeights, itemMin.Height, i) + i * Padding
HeightOf(i) == rowHeight(itemHeights, itemMin.Height, i)
\* Row i's rectangle intersects the viewport [offsetY, offsetY + height).
Intersects(i) ==
    /\ TopOf(i) < offsetY + scrollerHeight
    /\ TopOf(i) + HeightOf(i) > offsetY
\* The indices the visible-range computation returns in this state.
VisibleRange ==
    LET r == visibleItemHeights(offsetY, scrollerHeight, itemHeights,
                                itemMin.Height, length(State))
    IN r.minRow..(r.minRow + Len(r.visible) - 1)

\* C5: with a viewport height > 0 the indices the visible-range computation
\* returns include every index whose row intersects the viewport.
C5_RangeCoversViewport ==
    (rendered /\ scrollerHeight > 0)
    => \A i \in 0..(length(State) - 1) : Intersects(i) => i \in VisibleRange

\* C6: after ScrollTo(id) with id in range and a viewport at least as high as
\* row id, the whole of row id lies within the viewport.
C6_ScrollToShowsWholeRow ==
    (/\ op.name = "ScrollTo"
     /\ InRange(op.id)
     /\ rendered
     /\ scrollerHeight >= HeightOf(op.id))
    => /\ scrollerOffsetY <= TopOf(op.id)
       /\ TopOf(op.id) + HeightOf(op.id) <= scrollerOffsetY + scrollerHeight

\* C7: every completed pass calls UpdateItem for every row of its new visible
\* set with the view mounted there, and the last pass's set is the visible set.
C7_EveryVisibleRowUpdated ==
    /\ \A i \in 1..Len(log) :
          log[i].k = "updateList"
          => /\ i < Len(log)
             /\ log[i + 1].k = "UpdateItem"
             /\ log[i + 1].rows = log[i].rows
    /\ (Passes # <<>> /\ Passes[Len(Passes)].k = "updateList")
          => Calls({"UpdateItem"})[Len(Calls({"UpdateItem"}))].rows = Pairs(visible)

\* C7 witness: a pass took a view from the pool, mounted it for a row and
\* called UpdateItem for that row and view.
C7_Witness ==
    \E i, j \in 1..Len(log) :
        /\ log[i].k = "Obtain"
        /\ log[j].k = "UpdateItem"
        /\ \E pr \in log[j].rows : pr[2] = log[i].id /\ pr \in Pairs(visible)

\* C8: with one callback unset, creating the renderer and running passes never
\* panics.
C8_MissingCallbackNeverPanics == ~panicked

\* C9: no view of the visible set is idle in the pool, and no view is mounted
\* under two indices.
C9_ViewInOnePlace ==
    /\ Range(visible) \cap itemPool = {}
    /\ \A i, j \in DOMAIN visible : visible[i] = visible[j] => i = j

\* C9 witness: a pass released a view to the pool while other rows are mounted.
C9_Witness ==
    /\ Calls({"Release"}) # <<>>
    /\ itemPool # {}
    /\ DOMAIN visible # {}

\* C10: a second pass right after a completed one leaves the visible set and
\* the pool as they are and neither creates, obtains nor releases a view.
C10_SecondPassIdempotent ==
    (~panicked /\ Passes # <<>> /\ Passes[Len(Passes)].k = "updateList")
    => \A r \in updateList(State) :
          /\ r.visible = visible
          /\ r.itemPool = itemPool
          /\ \A i \in 1..Len(r.log) :
                r.log[i].k \notin {"CreateItem", "Obtain", "Release"}

\* C10 witness: a completed pass has left rows mounted and views in the pool.
C10_Witness ==
    /\ Passes # <<>>
    /\ Passes[Len(Passes)].k = "updateList"
    /\ DOMAIN visible # {}
    /\ itemPool # {}

\* The last pass of the operation that has just run completed.
Completed == Passes # <<>> /\ Passes[Len(Passes)].k = "updateList"

\* C11: after every completed pass the number of separators published with the
\* rows is one fewer than the number of visible rows, and zero when there is at
\* most one visible row.
C11_SeparatorsOneFewer ==
    Completed
    => separators = (IF Len(objects) > 1 THEN Len(objects) - 1 ELSE 0)

\* C12: after every pass, completed or aborted, every index of the visible set
\* is below the value Length() had for that pass.
C12_VisibleWithinLength ==
    Passes # <<>> => \A i \in DOMAIN visible : i >= 0 /\ i < length(State)

\* The rows the visible-range computation returns for the inputs the pass of
\* the step's operation reads.
RowsRead ==
    visibleItemHeights(offsetY', scrollerHeight', itemHeights', itemMin'.Height,
                       length(State)).visible

\* C13: a pass for which the visible-range computation returns no row while
\* Length() > 0 leaves the visible set, the pool, the views, the separators and
\* the published object list as they are and calls neither CreateItem nor
\* UpdateItem. Layout and a scroll event run exactly one pass.
C13_AbortChangesNothing ==
    [][(/\ op'.name \in {"Layout", "Scrolled"}
        /\ length(State) > 0
        /\ Len(RowsRead) = 0)
       => /\ UNCHANGED <<visible, itemPool, items, separators, objects>>
          /\ \A i \in 1..Len(log') : log'[i].k \notin {"CreateItem", "UpdateItem"}]_vars

\* C13 witness: a single pass aborted while rows of an earlier pass are mounted
\* and a view is idle in the pool.
C13_Witness ==
    /\ op.name \in {"Layout", "Scrolled"}
    /\ Passes # <<>>
    /\ Passes[Len(Passes)].k = "abort"
    /\ DOMAIN visible # {}
    /\ itemPool # {}

\* C14: a pass aborts only when the viewport has no height: with Length() > 0
\* and a viewport height > 0 every pass runs to completion.
\* Stated for the operations that leave the viewport height alone, on a list
\* that has its renderer.
C14_AbortOnlyWithoutExtent ==
    [][(/\ rendered
        /\ scrollerHeight' = scrollerHeight
        /\ \E i \in 1..Len(log') : log'[i].k = "abort")
       => ~(length(State) > 0 /\ scrollerHeight > 0)]_vars

\* The callbacks the caller supplies for the rows.
UserCallbacks == {"Length", "CreateItem", "UpdateItem"}

\* C15: no call of Length, CreateItem or UpdateItem is made while renderLock or
\* propertyLock is held.
C15_CallbacksRunUnlocked ==
    \A i \in 1..Len(log) : log[i].k \in UserCallbacks => log[i].locks = {}

\* C16: a view is never idle in the pool with the input focus, and a pass that
\* takes the focus from a view it drops has released that view by its end.
C16_NoFocusInPool ==
    /\ focused \cap itemPool = {}
    /\ \A i \in 1..Len(log) :
          log[i].k = "Focus(nil)"
          => \E j \in (i + 1)..Len(log) :
                /\ log[j].k = "Release"
                /\ \E pr \in log[j].rows : pr[2] = log[i].id

\* C16 witness: a pass dropped the view that had the focus: the focus is gone
\* and the view is idle in the pool.
C16_Witness ==
    \E i \in 1..Len(log) :
        /\ log[i].k = "Focus(nil)"
        /\ log[i].id \in itemPool
        /\ focused = {}

\* C17: between two operations every mounted view has its selected flag set
\* exactly if its index is the selected one.
C17_SelectedFlagMatches ==
    op = Idle
    => \A i \in DOMAIN visible :
          items[visible[i]].selected <=> (\E k \in 1..Len(selected) : selected[k] = i)

\* C18: with an UpdateItem that comes back into the list, once an operation has
\* returned every mounted view is bound to the index it is mounted under: its
\* child shows that row (the last UpdateItem call made for it) and its tap
\* handler selects that row.
C18_BoundToMountedIndex ==
    \A i \in DOMAIN visible :
        /\ items[visible[i]].child = {i}
        /\ items[visible[i]].onTapped = {i}

\* C19: after ScrollTo(id) or Select(id) of an index in range that re-rendered
\* the list, with uniform heights and a viewport at least one row high, row id
\* is mounted.
C19_ScrolledRowMounted ==
    (/\ op.name \in {"ScrollTo", "Select"}
     /\ InRange(op.id)
     /\ DOMAIN itemHeights = {}
     /\ rendered
     /\ scrollerHeight >= itemMin.Height
     /\ Passes # <<>>)
    => op.id \in DOMAIN visible

\* The largest of a set of naturals, 0 for the empty set.
Max(S) == IF S = {} THEN 0 ELSE CHOOSE x \in S : \A y \in S : y <= x
\* The largest number of rows visible in a pass up to the end of this step, as
\* far as the step shows it: the rows mounted when it starts and the rows of
\* the passes it runs.
MostRowsVisible ==
    Max({Cardinality(DOMAIN visible)}
        \cup {Cardinality(log'[i].rows) : i \in {j \in 1..Len(log') : log'[j].k = "updateList"}})

\* C20: the views in existence (every view made for the pool is mounted or idle)
\* never exceed twice the largest number of rows visible in a single pass. The
\* number of views grows only when a pass creates one and the largest number of
\* rows never shrinks, so it is enough that the bound holds after every step
\* that creates a view.
C20_ViewsBounded ==
    [][Len(items') > Len(items) => Len(items') <= 2 * MostRowsVisible]_vars

\* C20 witness: a pass created a view although other views existed, and as many
\* views are idle in the pool as are mounted.
C20_Witness ==
    /\ \E i \in 1..Len(log) : log[i].k = "CreateItem" /\ log[i].id >= 2
    /\ DOMAIN visible # {}
    /\ Cardinality(itemPool) = Cardinality(DOMAIN visible)

====
